---- MODULE Spec2Model ----
(***************************************************************************)
(* Model of build_helper/build.py: the per-job stage functions prepare,    *)
(* base_builds, build_packages, build_image_builder and build_images, and  *)
(* the key builders they use.  Strings are TLA+ strings; a character is a  *)
(* string of length one.                                                   *)
(***************************************************************************)
EXTENDS Integers, Sequences, FiniteSets, TLC

\* ------------------------------------------------------------------------
\* Bounds of the model
\* ------------------------------------------------------------------------
MaxLines == 2
MaxFiles == 3

\* ------------------------------------------------------------------------
\* Python values and string methods
\* ------------------------------------------------------------------------
\* Python's None; no string of the input pools equals it.
None == "<None>"

\* bool(x) of an Optional[str]: None and the empty string are falsy.
Truthy(x) == x # None /\ x # ""

Ch(s, i) == SubSeq(s, i, i)

StartsWith(s, p) == Len(s) >= Len(p) /\ SubSeq(s, 1, Len(p)) = p

EndsWith(s, p) == Len(s) >= Len(p) /\ SubSeq(s, Len(s) - Len(p) + 1, Len(s)) = p

UpperAlpha == "ABCDEFGHIJKLMNOPQRSTUVWXYZ"

LowerAlpha == "abcdefghijklmnopqrstuvwxyz"

LowerCh(c) ==
    IF \E i \in 1..26 : Ch(UpperAlpha, i) = c
    THEN Ch(LowerAlpha, CHOOSE i \in 1..26 : Ch(UpperAlpha, i) = c)
    ELSE c

RECURSIVE Lower(_)
Lower(s) == IF s = "" THEN "" ELSE LowerCh(Ch(s, 1)) \o Lower(SubSeq(s, 2, Len(s)))

Whitespace == {" ", "\t", "\n", "\r", "\f"}

RECURSIVE LStrip(_)
LStrip(s) ==
    IF s # "" /\ Ch(s, 1) \in Whitespace THEN LStrip(SubSeq(s, 2, Len(s))) ELSE s

RECURSIVE RStrip(_)
RStrip(s) ==
    IF s # "" /\ Ch(s, Len(s)) \in Whitespace THEN RStrip(SubSeq(s, 1, Len(s) - 1)) ELSE s

Strip(s) == RStrip(LStrip(s))

\* str.replace(old, new): every non-overlapping occurrence, left to right.
RECURSIVE Replace(_, _, _)
Replace(s, old, new) ==
    IF Len(s) < Len(old) THEN s
    ELSE IF StartsWith(s, old)
         THEN new \o Replace(SubSeq(s, Len(old) + 1, Len(s)), old, new)
         ELSE Ch(s, 1) \o Replace(SubSeq(s, 2, Len(s)), old, new)

\* ------------------------------------------------------------------------
\* Cache keys
\* ------------------------------------------------------------------------
\* get_cache_restore_key: the job prefix, or None where the code raises
\* ValueError("Invalid job").
JobPrefix(job) ==
    IF StartsWith(job, "base-builds") THEN "base-builds"
    ELSE IF StartsWith(job, "build-packages") THEN "build-packages"
    ELSE IF StartsWith(job, "build-ImageBuilder") THEN "build-ImageBuilder"
    ELSE None

GetCacheRestoreKey(job, branch, name, target, subtarget) ==
    LET base == JobPrefix(job) \o "-" \o branch \o "-" \o name
        withT == IF Truthy(target) THEN base \o "-" \o target ELSE base
    IN  IF Truthy(subtarget) THEN withT \o "-" \o subtarget ELSE withT

\* A faulty variant of ToolchainKey that leaves the hash out.
ToolchainKeyNoHash(hash, target, subtarget) ==
    LET base == "toolchain-"
        withT == IF Truthy(target) THEN base \o "-" \o target ELSE base
    IN  IF Truthy(subtarget) THEN withT \o "-" \o subtarget ELSE withT

\* prepare, base-builds branch: the toolchain key.
ToolchainKey(hash, target, subtarget) ==
    LET base == "toolchain-" \o hash
        withT == IF Truthy(target) THEN base \o "-" \o target ELSE base
    IN  IF Truthy(subtarget) THEN withT \o "-" \o subtarget ELSE withT

\* ------------------------------------------------------------------------
\* The .config rewrite of build_image_builder
\* ------------------------------------------------------------------------
\* Number of leading characters of s matched by the class [^_=].
RECURSIVE NameRun(_)
NameRun(s) ==
    IF s = "" \/ Ch(s, 1) \in {"_", "="} THEN 0 ELSE 1 + NameRun(SubSeq(s, 2, Len(s)))

\* re.match(prefix (?P<name>[^_=]+) suffix, line): the captured name, or None
\* when the line does not match.  Each suffix starts with "_" or "=", which
\* [^_=] cannot consume, so the only candidate name is the maximal run.
MatchName(line, prefix, suffix) ==
    IF ~StartsWith(line, prefix) THEN None
    ELSE LET rest == SubSeq(line, Len(prefix) + 1, Len(line))
             n == NameRun(rest)
         IN  IF n > 0 /\ StartsWith(SubSeq(rest, n + 1, Len(rest)), suffix)
             THEN SubSeq(rest, 1, n)
             ELSE None

\* The three patterns, tried in the order of the "or" chain.
ConfigMatch(line) ==
    LET m1 == MatchName(line, "CONFIG_", "_IMAGES=y")
        m2 == MatchName(line, "CONFIG_TARGET_ROOTFS_", "=y")
        m3 == MatchName(line, "CONFIG_TARGET_IMAGES_", "=y")
    IN  IF m1 # None THEN m1 ELSE IF m2 # None THEN m2 ELSE m3

Denylist == {"ISO", "VDI", "VMDK", "VHDX", "TARGZ", "CPIOGZ", "EXT4FS", "SQUASHFS", "GZIP"}

\* A faulty variant of RewriteLine that writes denylisted lines unflipped.
RewriteLineNoFlip(line) ==
    LET name == ConfigMatch(line)
    IN  IF name # None THEN (IF name \in Denylist THEN <<line>> ELSE <<>>)
        ELSE <<line>>

\* The lines written for one input line: the body of the for loop.
RewriteLine(line) ==
    LET name == ConfigMatch(line)
    IN  IF name # None
        THEN (IF name \in Denylist THEN <<Replace(line, "=y", "=n")>> ELSE <<>>)
        ELSE <<line>>

RECURSIVE RewriteLines(_)
RewriteLines(lines) ==
    IF lines = <<>> THEN <<>> ELSE RewriteLine(Head(lines)) \o RewriteLines(Tail(lines))

\* The whole "with open(..., 'w')" block: the loop and the two appended lines.
RewriteConfig(lines) == RewriteLines(lines) \o <<"CONFIG_IB=y", "CONFIG_IB_STANDALONE=y">>

\* ------------------------------------------------------------------------
\* Classification of the files found by os.walk
\* ------------------------------------------------------------------------
IsPackage(file) == EndsWith(file, ".ipk")

\* A faulty variant of IsKmod that forgets the suffix test.
IsKmodPrefixOnly(file) == StartsWith(file, "kmod-")

IsKmod(file) == StartsWith(file, "kmod-") /\ EndsWith(file, ".ipk")

\* ------------------------------------------------------------------------
\* CACHE_HIT
\* ------------------------------------------------------------------------
\* A faulty variant of CacheHit that forgets lower().
CacheHitNoLower(value) == Strip(value) = "true"

\* os.getenv("CACHE_HIT", "").lower().strip() != "true", negated.
CacheHit(value) == Strip(Lower(value)) = "true"

\* ------------------------------------------------------------------------
\* State of one run of a stage function
\* ------------------------------------------------------------------------
VARIABLES
    func,        \* the stage function that runs
    env,         \* what the run finds: job name, environment, .config, targets
    files,       \* the files of the output directory, once the run has listed it
    pc,          \* index of the next statement of the function
    status,      \* "running", "done" (returned) or "failed" (exception)
    err,         \* the exception that ended the run, or None
    trace,       \* the calls made so far, as "op:arg"
    outputs,     \* core.set_output calls so far, as <<name, value>>
    uploads,     \* uploader.add calls so far
    uploadsDir,  \* the directories filled under paths.uploads
    written,     \* the lines written to .config, or <<>> before the rewrite
    delCache,    \* del_cache calls so far
    tupA, tupB,  \* two key tuples (key comparison)
    keyA, keyB   \* their keys, or None before they are built

runVars == <<func, env, files, pc, status, err, trace, outputs, uploads, uploadsDir, written, delCache>>

keyVars == <<tupA, tupB, keyA, keyB>>

vars == <<func, env, files, pc, status, err, trace, outputs, uploads, uploadsDir, written,
          delCache, tupA, tupB, keyA, keyB>>

\* cfg["name"], cfg["compile"]["openwrt_tag/branch"], cfg["compile"]["use_cache"],
\* context.run_id and openwrt.path of the run.
CfgName == "ax3600"

CfgBranch == "master"

CfgUseCache == "true"

RunId == "7"

OpenwrtPath == "/work/openwrt"

Step(op, arg) == [op |-> op, arg |-> arg]

\* The module's imports (lines 3-18) bind no name glob, so evaluating
\* glob.glob raises NameError.
GlobBound == FALSE

Contains(s, sub) == \E i \in 1..(Len(s) - Len(sub) + 1) : SubSeq(s, i, i + Len(sub) - 1) = sub

\* glob pattern *-imagebuilder-*-<target>-<subtarget>.Linux-x86_64.tar.*
GlobMatch(file, target, subtarget) ==
    LET a == "-imagebuilder-"
        b == "-" \o target \o "-" \o subtarget \o ".Linux-x86_64.tar."
    IN  \E i \in 1..Len(file) :
            /\ SubSeq(file, i, i + Len(a) - 1) = a
            /\ Contains(SubSeq(file, i + Len(a), Len(file)), b)

\* del_cache(get_cache_restore_key(openwrt, cfg))
DelCacheSteps(e) ==
    IF JobPrefix(e.job) = None THEN <<Step("raise", "ValueError")>>
    ELSE <<Step("del_cache",
                GetCacheRestoreKey(e.job, CfgBranch, CfgName, e.target, e.subtarget))>>

\* A faulty variant of PrepareBranch that matches job names by prefix.
PrepareBranchByPrefix(e) ==
    IF StartsWith(e.job, "base-builds") THEN
        <<Step("set_output", "toolchain-key")>>
    ELSE IF StartsWith(e.job, "build-packages") \/ StartsWith(e.job, "build-ImageBuilder") THEN
        <<Step("dl_artifact", "base-builds-" \o CfgName)>>
    ELSE IF StartsWith(e.job, "build-images-releases") THEN
        <<Step("dl_artifact", "Image_Builder-" \o CfgName),
          Step("dl_artifact", "packages-" \o CfgName)>>
    ELSE <<Step("raise", "ValueError")>>

\* A faulty variant of PrepareBranch that downloads no archive of its own.
PrepareBranchSourceOnly(e) ==
    IF e.job \in {"base-builds", "build-packages", "build-ImageBuilder", "build-images-releases"}
    THEN IF e.job = "base-builds" THEN <<Step("set_output", "toolchain-key")>> ELSE <<>>
    ELSE <<Step("raise", "ValueError")>>

\* prepare, lines 57-112: the if/elif chain on context.job.
PrepareBranch(e) ==
    IF e.job = "base-builds" THEN
        <<Step("set_output", "toolchain-key")>>
    ELSE IF e.job \in {"build-packages", "build-ImageBuilder"} THEN
        (IF e.staging THEN <<Step("fs", "rmtree staging_dir")>> ELSE <<>>)
        \o <<Step("dl_artifact", "base-builds-" \o CfgName),
             Step("extract", "builds.tar.gz"),
             Step("extract", "builds.tar.gz -> openwrt")>>
    ELSE IF e.job = "build-images-releases" THEN
        LET ext == IF e.ibZst THEN "zst" ELSE "xz"
        IN  <<Step("dl_artifact", "Image_Builder-" \o CfgName),
              Step("extract", "openwrt-imagebuilder.tar." \o ext),
              Step("extract", "openwrt-imagebuilder.tar." \o ext \o " -> workdir"),
              Step("fs", "move ImageBuilder"),
              Step("dl_artifact", "packages-" \o CfgName),
              Step("extract", "packages -> ImageBuilder/packages"),
              Step("fs", "copytree files")>>
            \o (IF e.ibConfig THEN <<Step("fs", "remove ImageBuilder/.config")>> ELSE <<>>)
            \o <<Step("fs", "copy2 .config")>>
    ELSE <<Step("raise", "ValueError")>>

\* prepare, lines 114-119: the outputs published after the branch.
PrepareOutputs(e) ==
    (IF e.job \in {"base-builds", "build-packages", "build-ImageBuilder"}
     THEN IF JobPrefix(e.job) = None THEN <<Step("raise", "ValueError")>>
          ELSE <<Step("set_output", "cache-key"), Step("set_output", "cache-restore-key")>>
     ELSE <<>>)
    \o <<Step("set_output", "use-cache"), Step("set_output", "openwrt-path")>>

PlanPrepare(e) ==
    <<Step("fs", "setup_env"),
      Step("dl_artifact", "openwrt-source-" \o CfgName),
      Step("extract", "openwrt-source.tar.gz"),
      Step("extract", "openwrt-source.tar.gz -> workdir")>>
    \o PrepareBranch(e) \o PrepareOutputs(e)

\* Value of each output published by prepare.
OutputValue(name, e) ==
    LET restoreKey == GetCacheRestoreKey(e.job, CfgBranch, CfgName, e.target, e.subtarget)
    IN  CASE name = "toolchain-key" -> ToolchainKey(e.hash, e.target, e.subtarget)
          [] name = "cache-key" -> restoreKey \o "-" \o RunId
          [] name = "cache-restore-key" -> restoreKey
          [] name = "use-cache" -> CfgUseCache
          [] OTHER -> OpenwrtPath

\* base_builds, lines 133-143: the toolchain rebuild.
ToolchainSteps ==
    <<Step("download_source", "tools/download"),
      Step("download_source", "target/prereq"),
      Step("download_source", "toolchain/download"),
      Step("make", "tools/install"),
      Step("make", "toolchain/install"),
      Step("make", "clean")>>

PlanBaseBuilds(e) ==
    (IF e.ccache THEN <<Step("fs", "stash .ccache")>> ELSE <<>>)
    \o <<Step("fs", "enable_kmods")>>
    \o (IF ~CacheHit(e.cacheHit) THEN ToolchainSteps ELSE <<>>)
    \o <<Step("download_source", "target/download")>>
    \o (IF e.ccache THEN <<Step("fs", "restore .ccache")>> ELSE <<>>)
    \o <<Step("make", "target/compile"),
         Step("fs", "archive builds.tar.gz"),
         Step("uploader_add", "base-builds-" \o CfgName)>>
    \o DelCacheSteps(e)

PlanBuildPackages(e) ==
    <<Step("download_source", ""),
      Step("make", "package/compile"),
      Step("make", "package/install"),
      Step("collect", "packages"),
      Step("uploader_add", "packages-" \o CfgName)>>
    \o DelCacheSteps(e)

\* build_image_builder, lines 303-319: locate, move and upload the tarball.
ImageBuilderUpload(e, fs) ==
    IF ~GlobBound THEN <<Step("raise", "NameError")>>
    ELSE IF {f \in fs : GlobMatch(f, e.target, e.subtarget)} = {}
         THEN <<Step("raise", "FileNotFoundError")>>
         ELSE <<Step("fs", "move openwrt-imagebuilder.tar"),
                Step("uploader_add", "Image_Builder-" \o CfgName)>>
              \o DelCacheSteps(e)

PlanBuildImageBuilder(e, fs) ==
    <<Step("fs", "enable_kmods"),
      Step("rewrite_config", ".config"),
      Step("fs", "make_defconfig"),
      Step("download_source", ""),
      Step("make", "package/compile"),
      Step("make", "package/install"),
      Step("make", "target/install"),
      Step("make", "package/index"),
      Step("make", "json_overview_image_info"),
      Step("make", "checksum"),
      Step("collect", "kmods"),
      Step("uploader_add", "kmods-" \o CfgName)>>
    \o (IF e.target = None \/ e.subtarget = None
        THEN <<Step("raise", "RuntimeError")>>
        ELSE <<Step("fs", "listdir bin")>> \o ImageBuilderUpload(e, fs))

PlanBuildImages(e) ==
    <<Step("make", "info"),
      Step("make", "manifest"),
      Step("make", "image")>>
    \o (IF e.target = None \/ e.subtarget = None
        THEN <<Step("raise", "RuntimeError")>>
        ELSE <<Step("uploader_add", "firmware-" \o CfgName)>>)

Plan(f, e, fs) ==
    CASE f = "prepare" -> PlanPrepare(e)
      [] f = "base_builds" -> PlanBaseBuilds(e)
      [] f = "build_packages" -> PlanBuildPackages(e)
      [] f = "build_image_builder" -> PlanBuildImageBuilder(e, fs)
      [] OTHER -> PlanBuildImages(e)

\* The job each stage function runs in (the workflow's job names).
StageJob(f) ==
    CASE f = "base_builds" -> "base-builds"
      [] f = "build_packages" -> "build-packages"
      [] f = "build_image_builder" -> "build-ImageBuilder"
      [] OTHER -> "build-images-releases"

\* ------------------------------------------------------------------------
\* Inputs
\* ------------------------------------------------------------------------
Funcs == {"prepare", "base_builds", "build_packages", "build_image_builder", "build_images"}

JobNames ==
    {"base-builds", "build-packages", "build-ImageBuilder", "build-images-releases",
     "base-builds-x86", "build-packages2", "build-images", "deploy", ""}

Targets == {None, "qualcommax"}

Subtargets == {None, "ipq807x"}

Hashes == {"0f3a", "9c1e"}

CacheHitValues == {"", "true", "TRUE", "True", "false", " true", "true\n", "1", "truee"}

LinePool ==
    {"CONFIG_TARGET_ROOTFS_SQUASHFS=y", "CONFIG_FOO=y", "CONFIG_ISO_IMAGES=y",
     "CONFIG_TARGET_IMAGES_GZIP=y", "CONFIG_TARGET_ROOTFS_INITRAMFS=y",
     "CONFIG_VDI_IMAGES=n"}

FilePool ==
    {"a.ipk", "kmod-x.ipk", "notes.txt", "kmod-y.txt", "fw-sysupgrade.bin"}

Configs == UNION {[1..n -> LinePool] : n \in 0..MaxLines}

FileSets == {S \in SUBSET FilePool : Cardinality(S) <= MaxFiles}

DefaultEnv ==
    [job |-> "base-builds", cacheHit |-> "", ccache |-> FALSE, staging |-> FALSE,
     ibZst |-> FALSE, ibConfig |-> FALSE, target |-> "qualcommax", subtarget |-> "ipq807x",
     hash |-> "0f3a", config |-> <<>>]

\* What a run of f can find.
Envs(f) ==
    CASE f = "prepare" ->
           {[DefaultEnv EXCEPT !.job = j, !.target = t, !.subtarget = st, !.hash = h,
                               !.staging = b, !.ibZst = z, !.ibConfig = c] :
              j \in JobNames, t \in Targets, st \in Subtargets, h \in Hashes,
              b \in BOOLEAN, z \in BOOLEAN, c \in BOOLEAN}
      [] f = "base_builds" ->
           {[DefaultEnv EXCEPT !.job = StageJob(f), !.cacheHit = v, !.ccache = b,
                               !.target = t, !.subtarget = st] :
              v \in CacheHitValues, b \in BOOLEAN, t \in Targets, st \in Subtargets}
      [] f = "build_packages" ->
           {[DefaultEnv EXCEPT !.job = StageJob(f), !.target = t, !.subtarget = st] :
              t \in Targets, st \in Subtargets}
      [] f = "build_image_builder" ->
           {[DefaultEnv EXCEPT !.job = StageJob(f), !.config = cf,
                               !.target = t, !.subtarget = st] :
              cf \in Configs, t \in Targets, st \in Subtargets}
      [] OTHER ->
           {[DefaultEnv EXCEPT !.job = StageJob(f), !.target = t, !.subtarget = st] :
              t \in Targets, st \in Subtargets}

NoKey == [restore |-> None, toolchain |-> None]

DefaultTuple ==
    [job |-> "base-builds", branch |-> CfgBranch, name |-> CfgName,
     target |-> None, subtarget |-> None, hash |-> "0f3a"]

Init ==
    /\ func \in Funcs
    /\ env \in Envs(func)
    /\ files = {}
    /\ pc = 1
    /\ status = "running"
    /\ err = None
    /\ trace = <<>>
    /\ outputs = <<>>
    /\ uploads = <<>>
    /\ uploadsDir = [packages |-> {}, kmods |-> {}]
    /\ written = <<>>
    /\ delCache = <<>>
    /\ tupA = DefaultTuple /\ tupB = DefaultTuple
    /\ keyA = NoKey /\ keyB = NoKey

\* ------------------------------------------------------------------------
\* Statements
\* ------------------------------------------------------------------------
Running == status = "running" /\ pc <= Len(Plan(func, env, files))

Cur == Plan(func, env, files)[pc]

Call(s) == s.op \o ":" \o s.arg

Advance ==
    /\ pc' = pc + 1
    /\ trace' = Append(trace, Call(Cur))
    /\ UNCHANGED <<func, env, status, err, keyVars>>

DlArtifact ==
    /\ Running /\ Cur.op = "dl_artifact"
    /\ Advance
    /\ UNCHANGED <<files, outputs, uploads, uploadsDir, written, delCache>>

Extract ==
    /\ Running /\ Cur.op = "extract"
    /\ Advance
    /\ UNCHANGED <<files, outputs, uploads, uploadsDir, written, delCache>>

FsOp ==
    /\ Running /\ Cur.op = "fs"
    /\ Advance
    /\ UNCHANGED <<files, outputs, uploads, uploadsDir, written, delCache>>

DownloadSource ==
    /\ Running /\ Cur.op = "download_source"
    /\ Advance
    /\ UNCHANGED <<files, outputs, uploads, uploadsDir, written, delCache>>

Make ==
    /\ Running /\ Cur.op = "make"
    /\ Advance
    /\ UNCHANGED <<files, outputs, uploads, uploadsDir, written, delCache>>

SetOutput ==
    /\ Running /\ Cur.op = "set_output"
    /\ Advance
    /\ outputs' = Append(outputs, <<Cur.arg, OutputValue(Cur.arg, env)>>)
    /\ UNCHANGED <<files, uploads, uploadsDir, written, delCache>>

Rewrite ==
    /\ Running /\ Cur.op = "rewrite_config"
    /\ Advance
    /\ written' = RewriteConfig(env.config)
    /\ UNCHANGED <<files, outputs, uploads, uploadsDir, delCache>>

\* os.walk over bin, which finds some set of files, and shutil.copy2 of the
\* selected ones.
Collect ==
    /\ Running /\ Cur.op = "collect"
    /\ Advance
    /\ \E found \in FileSets :
         /\ files' = found
         /\ uploadsDir' =
              IF Cur.arg = "packages"
              THEN [uploadsDir EXCEPT !.packages = {f \in found : IsPackage(f)}]
              ELSE [uploadsDir EXCEPT !.kmods = {f \in found : IsKmod(f)}]
    /\ UNCHANGED <<outputs, uploads, written, delCache>>

\* What uploader.add is handed under each artifact name; found is the content
\* of the firmware directory bin/targets/<target>/<subtarget>.
UploadContent(name, found) ==
    IF StartsWith(name, "packages-") THEN uploadsDir.packages
    ELSE IF StartsWith(name, "kmods-") THEN uploadsDir.kmods
    ELSE IF StartsWith(name, "firmware-") THEN found
    ELSE IF StartsWith(name, "base-builds-") THEN {"builds.tar.gz"}
    ELSE {"openwrt-imagebuilder.tar"}

UploaderAdd ==
    /\ Running /\ Cur.op = "uploader_add"
    /\ Advance
    /\ \E found \in (IF StartsWith(Cur.arg, "firmware-") THEN FileSets ELSE {files}) :
         /\ files' = found
         /\ uploads' = Append(uploads, [name |-> Cur.arg, files |-> UploadContent(Cur.arg, found)])
    /\ UNCHANGED <<outputs, uploadsDir, written, delCache>>

DelCache ==
    /\ Running /\ Cur.op = "del_cache"
    /\ Advance
    /\ delCache' = Append(delCache, Cur.arg)
    /\ UNCHANGED <<files, outputs, uploads, uploadsDir, written>>

\* A raise statement of the function (or the NameError of an unbound name).
Raise ==
    /\ Running /\ Cur.op = "raise"
    /\ status' = "failed"
    /\ err' = Cur.arg
    /\ UNCHANGED <<func, env, files, pc, trace, outputs, uploads, uploadsDir, written, delCache, keyVars>>

\* The external tool or service behind a call fails; the exception propagates.
ExternalOps == {"dl_artifact", "extract", "fs", "download_source", "make"}

ExternalFailure ==
    /\ Running /\ Cur.op \in ExternalOps
    /\ status' = "failed"
    /\ err' = "external"
    /\ UNCHANGED <<func, env, files, pc, trace, outputs, uploads, uploadsDir, written, delCache, keyVars>>

Return ==
    /\ status = "running" /\ pc = Len(Plan(func, env, files)) + 1
    /\ status' = "done"
    /\ UNCHANGED <<func, env, files, pc, err, trace, outputs, uploads, uploadsDir, written, delCache, keyVars>>

Next ==
    \/ DlArtifact
    \/ Extract
    \/ FsOp
    \/ DownloadSource
    \/ Make
    \/ SetOutput
    \/ Rewrite
    \/ Collect
    \/ UploaderAdd
    \/ DelCache
    \/ Raise
    \/ ExternalFailure
    \/ Return

Spec == Init /\ [][Next]_vars

\* ------------------------------------------------------------------------
\* Two key tuples and their keys
\* ------------------------------------------------------------------------
JobTypes == {"base-builds", "build-packages", "build-ImageBuilder"}

Branches == {"v23", "v23-rc"}

Names == {"ax3600", "rc-ax3600"}

Tuples ==
    [job : JobTypes, branch : Branches, name : Names,
     target : Targets, subtarget : Subtargets, hash : Hashes]

\* The keys one run builds for its tuple: get_cache_restore_key and the
\* toolchain key of prepare.
KeysOf(t) ==
    [restore |-> GetCacheRestoreKey(t.job, t.branch, t.name, t.target, t.subtarget),
     toolchain |-> ToolchainKey(t.hash, t.target, t.subtarget)]

InitKey ==
    /\ tupA \in Tuples /\ tupB \in Tuples
    /\ keyA = NoKey /\ keyB = NoKey
    /\ func = "prepare"
    /\ env = DefaultEnv
    /\ files = {}
    /\ pc = 1
    /\ status = "done"
    /\ err = None
    /\ trace = <<>>
    /\ outputs = <<>>
    /\ uploads = <<>>
    /\ uploadsDir = [packages |-> {}, kmods |-> {}]
    /\ written = <<>>
    /\ delCache = <<>>

BuildKeyA ==
    /\ keyA = NoKey
    /\ keyA' = KeysOf(tupA)
    /\ UNCHANGED <<runVars, tupA, tupB, keyB>>

BuildKeyB ==
    /\ keyB = NoKey
    /\ keyB' = KeysOf(tupB)
    /\ UNCHANGED <<runVars, tupA, tupB, keyA>>

NextKey ==
    \/ BuildKeyA
    \/ BuildKeyB

SpecKey == InitKey /\ [][NextKey]_vars

BothKeysBuilt == keyA # NoKey /\ keyB # NoKey

\* C2: the restore key identifies its tuple: two tuples have the same key
\* exactly when they agree on job type, branch, name, target and subtarget.
C2_KeyIdentifiesTuple ==
    BothKeysBuilt =>
        ((keyA.restore = keyB.restore)
            <=> (/\ tupA.job = tupB.job
                 /\ tupA.branch = tupB.branch
                 /\ tupA.name = tupB.name
                 /\ tupA.target = tupB.target
                 /\ tupA.subtarget = tupB.subtarget))

\* C6 as stated: the toolchain keys of two runs differ exactly when their
\* hash_dirs results differ, whatever the targets are.
C6_ToolchainKeyIffHash ==
    BothKeysBuilt => ((keyA.toolchain # keyB.toolchain) <=> (tupA.hash # tupB.hash))

\* C6 amended: for two runs with the same target and subtarget, the toolchain
\* keys differ exactly when the hash_dirs results differ.
C6_ToolchainKeyIffHashSameTarget ==
    (BothKeysBuilt /\ tupA.target = tupB.target /\ tupA.subtarget = tupB.subtarget)
        => ((keyA.toolchain # keyB.toolchain) <=> (tupA.hash # tupB.hash))

C6_Witness ==
    /\ BothKeysBuilt
    /\ tupA.target = tupB.target /\ tupA.subtarget = tupB.subtarget
    /\ tupA.target # None
    /\ tupA.hash # tupB.hash
    /\ keyA.toolchain # keyB.toolchain

\* ------------------------------------------------------------------------
\* Properties of a run
\* ------------------------------------------------------------------------
Terminated == status \in {"done", "failed"}

InTrace(c) == \E i \in 1..Len(trace) : trace[i] = c

IsPrefix(a, b) == Len(a) <= Len(b) /\ SubSeq(b, 1, Len(a)) = a

RECURSIVE IsSubsequence(_, _)
IsSubsequence(a, b) ==
    IF a = <<>> THEN TRUE
    ELSE IF b = <<>> THEN FALSE
    ELSE IF Head(a) = Head(b) THEN IsSubsequence(Tail(a), Tail(b))
    ELSE IsSubsequence(a, Tail(b))

OutputNames == {outputs[i][1] : i \in 1..Len(outputs)}

UploadNames == {uploads[i].name : i \in 1..Len(uploads)}

SupportedJobs == {"base-builds", "build-packages", "build-ImageBuilder", "build-images-releases"}

\* The branches of prepare a run has entered, each known by its first effect.
BranchesEntered ==
    {b \in {"toolchain", "restore", "releases"} :
        \/ b = "toolchain" /\ InTrace("set_output:toolchain-key")
        \/ b = "restore" /\ InTrace("dl_artifact:base-builds-ax3600")
        \/ b = "releases" /\ InTrace("dl_artifact:Image_Builder-ax3600")}

BranchOfJob(job) ==
    IF job = "base-builds" THEN "toolchain"
    ELSE IF job = "build-images-releases" THEN "releases"
    ELSE "restore"

SourceRestored == InTrace("extract:openwrt-source.tar.gz -> workdir")

\* C1: prepare takes exactly one branch for a supported job name and then
\* publishes the outputs; for any other name, also one that only starts with
\* a supported name, it enters no branch, publishes nothing and ends in
\* ValueError once the source archive is restored.
C1_ExactlyOneBranch ==
    func = "prepare" =>
        /\ env.job \in SupportedJobs =>
             /\ BranchesEntered \subseteq {BranchOfJob(env.job)}
             /\ err \in {None, "external"}
             /\ ({"use-cache", "openwrt-path"} \cap OutputNames # {}
                    => BranchesEntered = {BranchOfJob(env.job)})
             /\ (status = "done"
                    => /\ BranchesEntered = {BranchOfJob(env.job)}
                       /\ {"use-cache", "openwrt-path"} \subseteq OutputNames)
        /\ env.job \notin SupportedJobs =>
             /\ BranchesEntered = {}
             /\ outputs = <<>>
             /\ status # "done"
             /\ err \in {None, "external", "ValueError"}
             /\ (Terminated /\ SourceRestored => err = "ValueError")

C1_Witness ==
    /\ func = "prepare" /\ env.job = "base-builds-x86"
    /\ status = "failed" /\ err = "ValueError" /\ outputs = <<>>

DlCalls == SelectSeq(trace, LAMBDA c : StartsWith(c, "dl_artifact:"))

\* C9 as stated: a run of prepare makes at most one dl_artifact call.
C9_AtMostOneDownload == func = "prepare" => Len(DlCalls) <= 1

ExpectedDownloads(job) ==
    <<"dl_artifact:openwrt-source-ax3600">>
    \o (IF job \in {"build-packages", "build-ImageBuilder"}
        THEN <<"dl_artifact:base-builds-ax3600">>
        ELSE IF job = "build-images-releases"
        THEN <<"dl_artifact:Image_Builder-ax3600", "dl_artifact:packages-ax3600">>
        ELSE <<>>)

\* C9 amended: prepare downloads the source archive first and then the
\* archives of its job: one dl_artifact call in base-builds, two in
\* build-packages and build-ImageBuilder, three in build-images-releases, all
\* of them before use-cache and openwrt-path are published.
C9_DownloadsPerJob ==
    func = "prepare" =>
        /\ IsPrefix(DlCalls, ExpectedDownloads(env.job))
        /\ (InTrace("set_output:use-cache") => DlCalls = ExpectedDownloads(env.job))
        /\ (status = "done" => DlCalls = ExpectedDownloads(env.job))

C9_Witness ==
    /\ func = "prepare" /\ env.job = "build-images-releases" /\ status = "done"
    /\ Len(DlCalls) = 3

CacheStages == {"base_builds", "build_packages", "build_image_builder"}

LastCall == IF trace = <<>> THEN None ELSE trace[Len(trace)]

\* C3: in base_builds, build_packages and build_image_builder, a run whose
\* steps all succeed calls del_cache exactly once, as its last step and after
\* its artifact went to the uploader; a run with a failed step never calls it.
\* A run that ends for want of target metadata or of the tarball is counted
\* here among the failed ones.
C3_DelCacheAfterSuccess ==
    func \in CacheStages =>
        /\ Len(delCache) <= 1
        /\ (delCache # <<>> =>
               /\ StartsWith(LastCall, "del_cache:")
               /\ uploads # <<>>
               /\ err = None)
        /\ (Terminated /\ err \notin {"external", "RuntimeError", "FileNotFoundError"}
               => Len(delCache) = 1)

Firmware == {"fw-sysupgrade.bin"}

\* C5: when no file of the target output directory ends in .bin or .ubi, the
\* stage fails and hands no firmware or Image Builder artifact to the uploader.
C5_NoFirmwareFails ==
    (func \in {"build_image_builder", "build_images"} /\ Terminated /\ files \cap Firmware = {})
        => /\ status = "failed"
           /\ UploadNames \cap {"firmware-ax3600", "Image_Builder-ax3600"} = {}

ExpectedPackages == {"a.ipk", "kmod-x.ipk"}

ExpectedKmods == {"kmod-x.ipk"}

UploadedFiles(name) == UNION {uploads[i].files : i \in {j \in 1..Len(uploads) : uploads[j].name = name}}

\* C7: the package bundle is exactly the found files ending in .ipk and the
\* kmods bundle exactly those that also start with kmod-.
C7_BundleSelection ==
    /\ (func = "build_packages" /\ "packages-ax3600" \in UploadNames)
          => UploadedFiles("packages-ax3600") = files \cap ExpectedPackages
    /\ (func = "build_image_builder" /\ "kmods-ax3600" \in UploadNames)
          => /\ UploadedFiles("kmods-ax3600") = files \cap ExpectedKmods
             /\ UploadedFiles("kmods-ax3600") \subseteq files \cap ExpectedPackages

C7_Witness ==
    /\ func = "build_image_builder"
    /\ files = {"a.ipk", "kmod-x.ipk", "notes.txt"}
    /\ UploadedFiles("kmods-ax3600") = {"kmod-x.ipk"}

EqualsTrueIgnoringCase(v) ==
    /\ Len(v) = 4
    /\ Ch(v, 1) \in {"t", "T"} /\ Ch(v, 2) \in {"r", "R"}
    /\ Ch(v, 3) \in {"u", "U"} /\ Ch(v, 4) \in {"e", "E"}

EqualsTrueAfterStrip(v) ==
    \E i \in 1..Len(v) : \E j \in i..Len(v) :
        /\ EqualsTrueIgnoringCase(SubSeq(v, i, j))
        /\ \A k \in (1..(i - 1)) \cup ((j + 1)..Len(v)) : Ch(v, k) \in Whitespace

ExpectedBuild(skip) ==
    (IF skip THEN <<>>
     ELSE <<"download_source:tools/download", "download_source:target/prereq",
            "download_source:toolchain/download", "make:tools/install",
            "make:toolchain/install", "make:clean">>)
    \o <<"download_source:target/download", "make:target/compile",
         "fs:archive builds.tar.gz", "uploader_add:base-builds-ax3600">>

BuildCalls ==
    SelectSeq(trace, LAMBDA c : \/ StartsWith(c, "download_source:")
                                \/ StartsWith(c, "make:")
                                \/ c = "fs:archive builds.tar.gz"
                                \/ StartsWith(c, "uploader_add:"))

\* C8 as stated: the toolchain rebuild is skipped exactly when CACHE_HIT
\* equals "true" ignoring case.
C8_SkipIffTrue ==
    func = "base_builds" =>
        /\ IsPrefix(BuildCalls, ExpectedBuild(EqualsTrueIgnoringCase(env.cacheHit)))
        /\ (status = "done" => BuildCalls = ExpectedBuild(EqualsTrueIgnoringCase(env.cacheHit)))

\* C8 amended: the toolchain rebuild is skipped exactly when CACHE_HIT,
\* stripped of surrounding whitespace, equals "true" ignoring case; otherwise
\* the three downloads and three make targets run in order before
\* target/download; target/download precedes target/compile, then the
\* archive, then the upload of base-builds-<name>.
C8_SkipIffStrippedTrue ==
    func = "base_builds" =>
        /\ IsPrefix(BuildCalls, ExpectedBuild(EqualsTrueAfterStrip(env.cacheHit)))
        /\ (status = "done" => BuildCalls = ExpectedBuild(EqualsTrueAfterStrip(env.cacheHit)))

C8_Witness ==
    /\ func = "base_builds" /\ status = "done"
    /\ env.cacheHit = "true\n"
    /\ ~InTrace("make:tools/install")
    /\ InTrace("make:target/compile")

Appended == <<"CONFIG_IB=y", "CONFIG_IB_STANDALONE=y">>

\* What the spec expects for each line of the pool.
ExpectedLine(line) ==
    CASE line = "CONFIG_TARGET_ROOTFS_SQUASHFS=y" -> "CONFIG_TARGET_ROOTFS_SQUASHFS=n"
      [] line = "CONFIG_ISO_IMAGES=y" -> "CONFIG_ISO_IMAGES=n"
      [] line = "CONFIG_TARGET_IMAGES_GZIP=y" -> "CONFIG_TARGET_IMAGES_GZIP=n"
      [] OTHER -> line

\* Lines that match a pattern with a name outside the denylist.
MatchingNotDenied == {"CONFIG_TARGET_ROOTFS_INITRAMFS=y"}

RECURSIVE ExpectedCovered(_)
ExpectedCovered(lines) ==
    IF lines = <<>> THEN <<>>
    ELSE (IF Head(lines) \in MatchingNotDenied THEN <<>> ELSE <<ExpectedLine(Head(lines))>>)
         \o ExpectedCovered(Tail(lines))

Rewritten == func = "build_image_builder" /\ written # <<>>

\* C4: every line matching no pattern (a line already =n among them) is
\* written unchanged and every matching line with a denylisted name is
\* written with =y flipped to =n, in input order.
C4_PassthroughAndFlip ==
    Rewritten =>
        /\ IsSubsequence(ExpectedCovered(env.config), written)
        /\ ((\A i \in 1..Len(env.config) : env.config[i] \notin MatchingNotDenied)
               => IsPrefix(ExpectedCovered(env.config), written))

C4_Witness ==
    /\ Rewritten
    /\ env.config = <<"CONFIG_TARGET_ROOTFS_SQUASHFS=y", "CONFIG_VDI_IMAGES=n">>
    /\ written = <<"CONFIG_TARGET_ROOTFS_SQUASHFS=n", "CONFIG_VDI_IMAGES=n">> \o Appended

\* C10: the rewrite drops no line: the output is one line per input line, in
\* order, unchanged or with =y flipped to =n, then the two appended lines.
C10_NoLineDropped ==
    Rewritten =>
        /\ Len(written) = Len(env.config) + 2
        /\ \A i \in 1..Len(env.config) : written[i] = ExpectedLine(env.config[i])
        /\ SubSeq(written, Len(env.config) + 1, Len(written)) = Appended

====
